---- MODULE Spec2Model ----
(***************************************************************************)
(* Model of the merge engine (_merge_fits_rows, _OITableHDU._merge_helper),*)
(* the cross-match helper (_OITableHDU._xmatch) and the verification pass  *)
(* (_OITableHDU._verify and its overrides) of pyoifits.                    *)
(***************************************************************************)
EXTENDS Integers, Sequences, FiniteSets, TLC

(* ------------------------------ bounds --------------------------------- *)
\* largest number of tables handed to one merge (self and the others)
MaxInputs == 3
\* largest number of rows over all the tables of one merge
MaxTotalRows == 3
\* largest number of rows of a table that is cross-matched
MaxXRows == 2
\* largest number of rows of a table that is verified
MaxVRows == 2
\* largest number of columns of a table that is verified
MaxColumns == 2
\* largest number of _verify passes over one table
MaxPasses == 2
MaxConversions == 2
\* identifiers of the input tables are drawn from 1..MaxId
MaxId == 2

(* ------------------------------ values --------------------------------- *)
\* values of the one data column carried besides the identifier column
Names == {"X", "Y"}
\* id_name of _merge_helper: None (plain merge) or the identifier column
None == "None"
IdColumn == "TARGET_ID"
\* EXTNAME of the tables
ExtNames == {"OI_TARGET", "OI_ARRAY"}
\* the equality predicates a merge is run with
Equalities == {"never", "rows", "name"}
\* a cell that from_columns(nrows=...) allocates and nobody fills
BlankRow == [id |-> 0, name |-> ""]
\* default of get_target when the dataset has no target table
NotAvailable == "N/A"

VARIABLES
    hdus,       \* the tables merged, self first: [extname, rows]
    id_name,    \* id_name argument of _merge_helper
    equality,   \* equality argument of _merge_helper
    refs,       \* refs[i]: foreign-key column of the table referring to hdus[i]
    kept,       \* rows returned by _merge_fits_rows (one row set per input)
    maps,       \* maps returned by _merge_fits_rows (dicts, in insertion order)
    merged,     \* rows of the table _merge_helper returns
    mstate,     \* "ready", "done", or the exception _merge_helper raised
    xref,       \* the target table of the dataset: [exists, rows]
    xdep,       \* foreign-key column of the dependent table
    xresult,    \* what the cross-match returned
    xstate,     \* "ready", "done", or the exception the cross-match raised
    ccls,       \* class of the table being converted
    ctable,     \* its columns
    cprev,      \* class and columns of the table before the last to_version
    corig,      \* class and columns of the table first given
    creq,       \* the revisions asked of to_version so far
    vkind,      \* class of the table verified: "base", "ref", "target", "flux"
    vtable,     \* its columns: name -> [dtype, castable, unit, shape, values]
    vtarget,    \* get_targetHDU() of its dataset: [exists, ids]
    vopts,      \* the options of the _verify passes made so far
    vprev,      \* the columns before the last pass
    vreturn,    \* outcome of the last pass: [status, errors]
    vraised     \* every finding run_option produced during the last pass

mvars == <<hdus, id_name, equality, refs, kept, maps, merged, mstate>>
xvars == <<xref, xdep, xresult, xstate>>
vvars == <<vkind, vtable, vtarget, vopts, vprev, vreturn, vraised>>
cvars == <<ccls, ctable, cprev, corig, creq>>

(* --------------------------- python helpers ---------------------------- *)
Range(s) == {s[i] : i \in DOMAIN s}

Min(S) == CHOOSE x \in S : \A y \in S : x <= y

RECURSIVE SumLen(_)
\* sum(len(r) for r in rows)
SumLen(rs) == IF rs = <<>> THEN 0 ELSE Len(Head(rs)) + SumLen(Tail(rs))

RECURSIVE Flat(_)
\* [row1 for rows1 in kept for row1 in rows1]
Flat(rs) == IF rs = <<>> THEN <<>> ELSE Head(rs) \o Flat(Tail(rs))

\* a dict is the sequence of its items <<key, value>> in insertion order
DictKeys(d) == {d[i][1] : i \in DOMAIN d}

\* d.get(k, k)
DictGet(d, k) ==
    IF k \in DictKeys(d)
    THEN d[CHOOSE i \in DOMAIN d : d[i][1] = k][2]
    ELSE k

\* d[k] = v
DictSet(d, k, v) ==
    IF k \in DictKeys(d)
    THEN [i \in DOMAIN d |-> IF d[i][1] = k THEN <<k, v>> ELSE d[i]]
    ELSE Append(d, <<k, v>>)

\* {o: n for o, n in d.items() if o != n}
DictDiffering(d) == SelectSeq(d, LAMBDA it : it[1] # it[2])

\* rows[id_name] : the identifier column of a row set
IdCol(rows) == [i \in DOMAIN rows |-> rows[i].id]

(* --------------------------- _merge_fits_rows -------------------------- *)
\* equality(row2, row1): the default of _merge_helper (never equal), the
\* default of _merge_fits_rows (x == y) and a caller's predicate on the
\* data column (same target name)
Equality(eq, row2, row1) ==
    CASE eq = "never" -> FALSE
      [] eq = "rows"  -> row2 = row1
      [] eq = "name"  -> row2.name = row1.name

\* variant: the pool forgets the identifiers of the incoming rows
CandidateIdsWithoutIncoming(id1, id2) ==
    (1..(Len(id1) + Len(id2))) \ Range(id1)

\* sorted(set(range(1, 1 + len(id1) + len(id2))) - set([*id1, *id2]))
CandidateIds(id1, id2) ==
    (1..(Len(id1) + Len(id2))) \ (Range(id1) \cup Range(id2))

\* variant: the identifier the matching row had in its own input
MatchedIdBeforeMerge(id1, flat, idx) == flat[idx].id

\* id1[index_equal[0,0]] : identifier of the matching accepted row
MatchedId(id1, flat, idx) == id1[idx]

\* variant: a kept row always keeps its identifier
NewIdKeepsOld(id1, cand, old) == old

\* candidate_id2.pop(0) if id2[j] in id1 else id2[j]
NewId(id1, cand, old) == IF old \in Range(id1) THEN Min(cand) ELSE old

\* one turn of "for j, row2 in enumerate(rows2)"
\* st = [id1, cand, index_map, kept_lines, failed]; flat = rows of kept
RowStep(st, rows2, j, flat, eq) ==
    LET old == rows2[j].id
        eqs == {p \in DOMAIN flat : Equality(eq, rows2[j], flat[p])}
    IN  IF st.failed THEN st
        ELSE IF eqs # {}
        THEN [st EXCEPT !.index_map =
                 DictSet(st.index_map, old, MatchedId(st.id1, flat, Min(eqs)))]
        ELSE IF old \in Range(st.id1) /\ st.cand = {}
        THEN [st EXCEPT !.failed = TRUE]    \* pop from an empty list
        ELSE LET value == NewId(st.id1, st.cand, old)
             IN  [st EXCEPT !.kept_lines = Append(st.kept_lines, j),
                            !.cand = st.cand \ {value},
                            !.index_map = DictSet(st.index_map, old, value),
                            !.id1 = Append(st.id1, value)]

RECURSIVE RowLoop(_, _, _, _, _)
RowLoop(st, rows2, j, flat, eq) ==
    IF j > Len(rows2) THEN st
    ELSE RowLoop(RowStep(st, rows2, j, flat, eq), rows2, j + 1, flat, eq)

\* one turn of "for rows2 in rows[1:]"; acc = [id1, kept, maps, failed]
InputStep(acc, rows2, eq) ==
    LET st0 == [id1 |-> acc.id1,
                cand |-> CandidateIds(acc.id1, IdCol(rows2)),
                index_map |-> <<>>, kept_lines |-> <<>>,
                failed |-> acc.failed]
        st == RowLoop(st0, rows2, 1, Flat(acc.kept), eq)
        kept2 == [k \in DOMAIN st.kept_lines |-> rows2[st.kept_lines[k]]]
    IN  [id1 |-> st.id1,
         kept |-> Append(acc.kept, kept2),
         maps |-> Append(acc.maps, DictDiffering(st.index_map)),
         failed |-> st.failed]

RECURSIVE InputLoop(_, _, _, _)
InputLoop(acc, rows, i, eq) ==
    IF i > Len(rows) THEN acc
    ELSE InputLoop(InputStep(acc, rows[i], eq), rows, i + 1, eq)

\* _merge_fits_rows(*rows, id_name=..., equality=...)
MergeFitsRows(rows, idn, eq) ==
    IF idn = None
    THEN [id1 |-> <<>>, kept |-> rows, maps |-> << <<>> >>, failed |-> FALSE]
    ELSE InputLoop([id1 |-> IdCol(rows[1]), kept |-> <<rows[1]>>,
                    maps |-> << <<>> >>, failed |-> FALSE],
                   rows, 2, eq)

(* ----------------------------- _merge_helper --------------------------- *)
\* variant: the kind of the inputs is not looked at
SameExtnameUnchecked(hs) == TRUE

\* the kind check at the head of _merge_helper
SameExtname(hs) == \A i \in DOMAIN hs : hs[i].extname = hs[1].extname

\* variant: the table is sized by the columns it is built from
FromColumnsWithoutNrows(first, nrows) == first

\* cls.from_columns(columns, nrows=nrows, ...): the columns are those of the
\* first table (_merge_fits_columns keeps the first column of each name);
\* their cells are copied and the cells beyond them are blank
FromColumns(first, nrows) ==
    [k \in 1..nrows |-> IF k <= Len(first) THEN first[k] ELSE BlankRow]

\* values written for the rows of one input: the identifier column goes
\* through map.get(i, i) when "map and name == id_name"
AssembledValues(data, map, idn) ==
    [k \in DOMAIN data |->
        [data[k] EXCEPT !.id = IF map # <<>> /\ idn # None
                               THEN DictGet(map, data[k].id)
                               ELSE data[k].id]]

RECURSIVE FillRows(_, _, _, _, _, _)
\* for data, map in zip(rows, maps): merged.data[name][rowmin:rowmax] = values
FillRows(m, rows, mps, i, rowmin, idn) ==
    IF i > Len(rows) \/ i > Len(mps) THEN m
    ELSE LET values == AssembledValues(rows[i], mps[i], idn)
             rowmax == rowmin + Len(rows[i])
         IN  FillRows([k \in DOMAIN m |->
                          IF k > rowmin /\ k <= rowmax
                          THEN values[k - rowmin] ELSE m[k]],
                      rows, mps, i + 1, rowmax, idn)

\* variant: referrers are left as they were
CascadeFieldSkipped(field, map) == field

RECURSIVE CascadeField(_, _)
\* for old, new in map.items(): field[field == old] = new
CascadeField(field, map) ==
    IF map = <<>> THEN field
    ELSE CascadeField([k \in DOMAIN field |->
                          IF field[k] = Head(map)[1] THEN Head(map)[2]
                          ELSE field[k]],
                      Tail(map))

\* variant: every map is applied to the referrers of every input
CascadeEveryReferrer(rf, mps) ==
    [i \in DOMAIN rf |-> CascadeField(rf[i], Flat(mps))]

\* for hdu, map in zip(hdus, maps): if map and container: rewrite referrers
Cascade(rf, mps) ==
    [i \in DOMAIN rf |->
        IF i <= Len(mps) /\ mps[i] # <<>>
        THEN CascadeField(rf[i], mps[i]) ELSE rf[i]]

(* ------------------------ schema and column types ---------------------- *)
\* numpy type strings, stripped of their byte order: kind and size
I2 == [kind |-> "i", size |-> 2]
I4 == [kind |-> "i", size |-> 4]
F4 == [kind |-> "f", size |-> 4]
F8 == [kind |-> "f", size |-> 8]
S3 == [kind |-> "S", size |-> 3]
S8 == [kind |-> "S", size |-> 8]
U3 == [kind |-> "U", size |-> 3]

\* _fits_types and _dtype_descr
DtypeDescr(t) ==
    IF t.kind \in {"S", "U"} THEN <<t.size, "string">>
    ELSE IF t.kind = "i" /\ t.size \in {2, 4} THEN <<t.size, "int">>
    ELSE IF t.kind = "f" /\ t.size \in {4, 8} THEN <<t.size, "float">>
    ELSE IF t.kind = "c" /\ t.size \in {8, 16} THEN <<t.size, "complex">>
    ELSE IF t.kind \in {"i", "b"} /\ t.size = 1 THEN <<1, "boolean">>
    ELSE <<0, "">>

\* _fits_formats and _dtype_to_fits, for a column of scalar cells
DtypeToFits(t) ==
    IF t.kind \in {"S", "U"} THEN <<t.size, "A">>
    ELSE IF t = I2 THEN <<1, "I">>
    ELSE IF t = I4 THEN <<1, "J">>
    ELSE IF t = F4 THEN <<1, "E">>
    ELSE IF t = F8 THEN <<1, "D">>
    ELSE <<1, "L">>

\* column names are the words an underscore separates
TARGET_ID == <<"TARGET", "ID">>
RAEP0 == <<"RAEP0">>
CATEGORY == <<"CATEGORY">>
FLUXDATA == <<"FLUXDATA">>
FLUX == <<"FLUX">>
EXTRA == <<"EXTRA">>
MY_COL == <<"MY", "COL">>

NoUnit == "None"
NoTest == "None"
NoDefault == "None"

\* rows of _COLUMNS: name, required, type, shape, test, default, unit
ColDesc(n, r, t, sh, test, d, u) ==
    [name |-> n, required |-> r, type |-> t, shape |-> sh,
     test |-> test, default |-> d, unit |-> u]

\* _TargetHDU._COLUMNS and TargetHDU2._COLUMNS (the columns carried here)
TargetColumns ==
    << ColDesc(TARGET_ID, TRUE, I2, "scalar", "is_strictpos", NoDefault, NoUnit),
       ColDesc(RAEP0, TRUE, F8, "scalar", NoTest, NoDefault, "deg"),
       ColDesc(CATEGORY, FALSE, U3, "scalar", "_is_category", "SCI", NoUnit) >>

\* _FluxHDU._COLUMNS, after the TARGET_ID column every data table declares
FluxColumns ==
    << ColDesc(TARGET_ID, TRUE, I2, "scalar", "is_strictpos", NoDefault, NoUnit),
       ColDesc(FLUXDATA, TRUE, F8, "nwave", NoTest, "any", NoUnit) >>

\* cls._get_oi_columns(required)
GetOiColumns(kind, required) ==
    LET cols == IF kind = "flux" THEN FluxColumns ELSE TargetColumns
    IN  IF required THEN SelectSeq(cols, LAMBDA c : c.required) ELSE cols

\* cls._get_oi_colnames(required)
GetOiColnames(kind, required) ==
    LET cols == GetOiColumns(kind, required)
    IN  [i \in DOMAIN cols |-> cols[i].name]

\* the validators: _u.is_strictpos, _is_category
Test(test, v) ==
    CASE test = "is_strictpos" -> v > 0
      [] test = "_is_category" -> v \in {"SCI", "CAL"}

\* _np.array(default, dtype=dtype) succeeds: a string goes into a string
\* type only
DefaultCastable(default, dtype) ==
    default # NoDefault /\ dtype.kind \in {"S", "U"}

(* ------------------------------ run_option ----------------------------- *)
Finding(check, col, fixable) ==
    [check |-> check, col |-> col, fixable |-> fixable]

\* self.run_option(option, err_text, fix_text, fix, fixable): the flag of the
\* finding returned, and whether fix() is called
RunOptionFixable(option, fixable) ==
    IF option \in {"warn", "exception"} THEN FALSE ELSE fixable
RunOptionFixes(option, fixable) ==
    option \notin {"warn", "exception"} /\ fixable

\* acc = [table, errors, raised, casts]: the table, the list returned, every
\* finding produced and column_casts
Report(acc, check, col, option, fixable, appended) ==
    LET f == Finding(check, col, RunOptionFixable(option, fixable))
    IN  [acc EXCEPT !.raised = Append(@, f),
                    !.errors = IF appended THEN Append(@, f) ELSE @]

(* ------------------------- _OITableHDU._verify -------------------------- *)
RECURSIVE CheckRequired(_, _, _)
\* "Check all required columns are present"
CheckRequired(acc, names, option) ==
    IF names = <<>> THEN acc
    ELSE CheckRequired(
             IF Head(names) \notin DOMAIN acc.table
             THEN Report(acc, "missing", Head(names), option, FALSE, TRUE)
             ELSE acc,
             Tail(names), option)

\* "check the type": the fix does nothing, the column is queued for the cast
CheckType(acc, d, option) ==
    IF DtypeDescr(d.type) # DtypeDescr(acc.table[d.name].dtype)
    THEN [Report(acc, "type", d.name, option, TRUE, TRUE)
             EXCEPT !.casts = @ \cup {d.name}]
    ELSE acc

\* "check unit": the fix sets col.unit
CheckUnit(acc, d, option) ==
    IF acc.table[d.name].unit # d.unit
    THEN LET r == Report(acc, "unit", d.name, option, TRUE, TRUE)
         IN  IF RunOptionFixes(option, TRUE)
             THEN [r EXCEPT !.table[d.name].unit = d.unit]
             ELSE r
    ELSE acc

\* "check dimensionality"
CheckShape(acc, d, option) ==
    IF acc.table[d.name].shape # d.shape
    THEN Report(acc, "shape", d.name, option, FALSE, TRUE)
    ELSE acc

\* "Check values": dtype is the type the column had at the type check; the
\* finding is not appended to errors
CheckValues(acc, d, dtype, option) ==
    LET values == acc.table[d.name].values
        invalid == {k \in DOMAIN values : ~Test(d.test, values[k])}
        fixable == d.default # NoDefault /\ DefaultCastable(d.default, dtype)
        r == Report(acc, "values", d.name, option, fixable, FALSE)
    IN  IF d.test = NoTest \/ invalid = {} THEN acc
        ELSE IF RunOptionFixes(option, fixable)
        THEN [r EXCEPT !.table[d.name].values =
                 [k \in DOMAIN values |->
                     IF k \in invalid THEN d.default ELSE values[k]]]
        ELSE r

\* one turn of "for coldesc in OI_COLUMNS"
CheckColumn(acc, d, option) ==
    IF d.name \notin DOMAIN acc.table THEN acc
    ELSE LET dtype == acc.table[d.name].dtype
         IN  CheckValues(
                 CheckShape(CheckUnit(CheckType(acc, d, option), d, option),
                            d, option),
                 d, dtype, option)

RECURSIVE CheckColumns(_, _, _)
CheckColumns(acc, descs, option) ==
    IF descs = <<>> THEN acc
    ELSE CheckColumns(CheckColumn(acc, Head(descs), option), Tail(descs), option)

\* '_' in name
HasUnderscore(name) == Len(name) > 1

\* f"NS_{name}"
NsPrefixed(name) == <<"NS">> \o name

\* the names the naming check substitutes
NonStandard(names, oi_colnames) ==
    {n \in names : n \notin Range(oi_colnames) /\ ~HasUnderscore(n)}

\* h.rename_columns(**names)
RenameColumns(table, names) ==
    LET rename(n) == IF n \in DOMAIN names THEN names[n] ELSE n
    IN  [m \in {rename(n) : n \in DOMAIN table} |->
            table[CHOOSE n \in DOMAIN table : rename(n) = m]]

\* "Non standard columns should start have prefix_"
CheckNaming(acc, kind, option) ==
    LET subst == NonStandard(DOMAIN acc.table, GetOiColnames(kind, FALSE))
        r == Report(acc, "naming", <<>>, option, TRUE, TRUE)
    IN  IF subst = {} THEN acc
        ELSE IF RunOptionFixes(option, TRUE)
        THEN [r EXCEPT !.table = RenameColumns(acc.table, [n \in subst |-> NsPrefixed(n)])]
        ELSE r

\* _cast_column(col, coldesc): the column in the declared format and unit
CastColumn(col, d) == [col EXCEPT !.dtype = d.type, !.unit = d.unit]

\* _cast_columns(cols, colsdesc): a cast that fails leaves the column
CastColumns(table, descs) ==
    [n \in DOMAIN table |->
        IF \E i \in DOMAIN descs : descs[i].name = n
        THEN LET d == descs[CHOOSE i \in DOMAIN descs : descs[i].name = n]
             IN  IF DtypeToFits(d.type) # DtypeToFits(table[n].dtype)
                    /\ table[n].castable
                 THEN CastColumn(table[n], d)
                 ELSE table[n]
        ELSE table[n]]

\* "if len(column_casts)": the batch of casts that ends the pass
CastBatch(acc, descs) ==
    IF acc.casts # {}
    THEN [acc EXCEPT !.table = CastColumns(@, descs)]
    ELSE acc

\* _OITableHDU._verify(option): [table, errors, raised, casts]
VerifyTable(table, kind, option) ==
    LET acc0 == [table |-> table, errors |-> <<>>, raised |-> <<>>, casts |-> {}]
        acc1 == CheckRequired(acc0, GetOiColnames(kind, TRUE), option)
        acc2 == CheckColumns(acc1, GetOiColumns(kind, FALSE), option)
    IN  CastBatch(CheckNaming(acc2, kind, option), GetOiColumns(kind, FALSE))

(* ------------------ _verify of the classes built on it ----------------- *)
RECURSIVE SortedSeq(_)
\* _np.unique(...): the values in ascending order
SortedSeq(S) == IF S = {} THEN <<>> ELSE <<Min(S)>> \o SortedSeq(S \ {Min(S)})

RECURSIVE CheckReferenced(_, _, _, _)
\* for v in val: if v not in t.TARGET_ID
CheckReferenced(acc, val, ids, option) ==
    IF val = <<>> THEN acc
    ELSE CheckReferenced(
             IF Head(val) \notin ids
             THEN Report(acc, "id_ref", TARGET_ID, option, FALSE, TRUE)
             ELSE acc,
             Tail(val), ids, option)

\* the outcome of a pass: what it leaves, returns and raised, and how it ended
Outcome(acc, status) ==
    [table |-> acc.table, errors |-> acc.errors, raised |-> acc.raised,
     status |-> status]

\* "if not all(val >= 1)"
CheckIdRange(acc, val, option) ==
    IF \E i \in DOMAIN val : ~(val[i] >= 1)
    THEN Report(acc, "id_range", TARGET_ID, option, FALSE, TRUE)
    ELSE acc

\* "Verify Target ID is correct (> 0) and referenced", on the outcome base of
\* the pass of _OITableHDU: self.TARGET_ID fails when the table has no such
\* column, t.TARGET_ID fails when the dataset has no target table
CheckTargetId(base, target, option) ==
    IF TARGET_ID \notin DOMAIN base.table
    THEN Outcome(base, "AttributeError")
    ELSE LET val == SortedSeq(Range(base.table[TARGET_ID].values))
         IN  IF target.is = "self"
             THEN Outcome(CheckIdRange(base, val, option), "list")
             ELSE IF target.is = "none" /\ val # <<>>
             THEN Outcome(CheckIdRange(base, val, option), "AttributeError")
             ELSE Outcome(CheckReferenced(CheckIdRange(base, val, option),
                                          val, target.ids, option), "list")

\* _MustHaveTargetHDU._verify(option)
VerifyMustHaveTarget(table, kind, target, option) ==
    CheckTargetId(VerifyTable(table, kind, option), target, option)

\* "Repeated TARGET_ID", on the outcome r of the pass of _MustHaveTargetHDU
CheckRepeatedId(r) ==
    IF r.status # "list" THEN r
    ELSE IF Cardinality(Range(r.table[TARGET_ID].values))
               = Len(r.table[TARGET_ID].values)
    THEN r
    ELSE [r EXCEPT
            !.errors = Append(@, Finding("id_repeat", TARGET_ID, FALSE)),
            !.raised = Append(@, Finding("id_repeat", TARGET_ID, FALSE))]

\* _TargetHDU._verify(option)
VerifyTargetHDU(table, kind, target, option) ==
    CheckRepeatedId(VerifyMustHaveTarget(table, kind, target, option))

\* the end of _FluxHDU._verify: the findings first of the FLUX column are
\* appended to the list of the pass below, and nothing is returned
FluxOutcome(r, first) ==
    [table |-> r.table,
     errors |-> r.errors \o first,
     raised |-> first \o r.raised,
     status |-> IF r.status = "list" THEN "None" ELSE r.status]

\* _FluxHDU._verify(option)
VerifyFluxHDU(table, kind, target, option) ==
    LET misnamed == FLUXDATA \notin DOMAIN table /\ FLUX \in DOMAIN table
        err == Finding("flux_name", FLUX, RunOptionFixable(option, TRUE))
    IN  FluxOutcome(
            VerifyMustHaveTarget(
                IF misnamed /\ RunOptionFixes(option, TRUE)
                THEN RenameColumns(table, [n \in {FLUX} |-> FLUXDATA])
                ELSE table,
                kind, target, option),
            IF misnamed THEN <<err>> ELSE <<>>)

\* no table is being verified
VIdle ==
    /\ vkind = "idle"
    /\ vtable = <<>>
    /\ vtarget = [is |-> "none", ids |-> {}]
    /\ vopts = <<>>
    /\ vprev = <<>>
    /\ vreturn = [status |-> "idle", errors |-> <<>>]
    /\ vraised = <<>>

(* ------------------------------ to_version ----------------------------- *)
U16 == [kind |-> "U", size |-> 16]
U32 == [kind |-> "U", size |-> 32]
TARGET == <<"TARGET">>

\* the concrete classes of the target table and of the flux table
Classes == {"TargetHDU1", "TargetHDU2", "FluxHDU1"}

\* cls._OI_VER: the version of the standard the class belongs to
OiVer(cls) == IF cls = "TargetHDU1" THEN 1 ELSE 2

\* type(self).__base__.__subclasses__(), in the order of definition
Subclasses(cls) ==
    IF cls = "FluxHDU1" THEN <<"FluxHDU1">> ELSE <<"TargetHDU1", "TargetHDU2">>

\* cls._COLUMNS of the concrete classes (the columns carried here)
ClassColumns(cls) ==
    CASE cls = "TargetHDU1" ->
            << ColDesc(TARGET_ID, TRUE, I2, "scalar", "is_strictpos", NoDefault, NoUnit),
               ColDesc(TARGET, TRUE, U16, "scalar", "is_nonempty", NoDefault, NoUnit) >>
      [] cls = "TargetHDU2" ->
            << ColDesc(TARGET_ID, TRUE, I2, "scalar", "is_strictpos", NoDefault, NoUnit),
               ColDesc(TARGET, TRUE, U32, "scalar", "is_nonempty", NoDefault, NoUnit),
               ColDesc(CATEGORY, FALSE, U3, "scalar", "_is_category", "SCI", NoUnit) >>
      [] OTHER -> FluxColumns

ClassColnames(cls) == {ClassColumns(cls)[i].name : i \in DOMAIN ClassColumns(cls)}

\* "for newcls in ...: if newcls._OI_VER == n: break": the first class of the
\* version, and the last class of the list when the loop runs to its end
NewCls(subclasses, n) ==
    IF \E i \in DOMAIN subclasses : OiVer(subclasses[i]) = n
    THEN subclasses[Min({i \in DOMAIN subclasses : OiVer(subclasses[i]) = n})]
    ELSE subclasses[Len(subclasses)]

\* cls.from_columns(columns): the columns given, those of the schema cast
ClsFromColumns(cls, columns) ==
    [cls |-> cls, table |-> CastColumns(columns, ClassColumns(cls))]

\* self.to_version(n)
ToVersionOf(self, n) ==
    IF OiVer(self.cls) = n THEN self
    ELSE ClsFromColumns(NewCls(Subclasses(self.cls), n), self.table)

\* no table is being converted
CIdle ==
    /\ ccls = "idle"
    /\ ctable = <<>>
    /\ cprev = [cls |-> "idle", table |-> <<>>]
    /\ corig = [cls |-> "idle", table |-> <<>>]
    /\ creq = <<>>

(* ------------------------------- _xmatch -------------------------------- *)
\* dict(zip(ref_indices, ref_values)): a later row replaces an earlier one
\* with the same identifier
XmatchDict(ref) ==
    [k \in {ref[i].id : i \in DOMAIN ref} |->
        ref[CHOOSE i \in DOMAIN ref :
               /\ ref[i].id = k
               /\ \A j \in DOMAIN ref : ref[j].id = k => j <= i].name]

\* self._xmatch(name, refhdu, refname): [state, values]
\* ref_values[0] fails on a reference table without rows, xmatch[i] fails on
\* the first index that is no key of the dict
Xmatch(ref, indices) ==
    IF ref = <<>>
    THEN [state |-> "IndexError", values |-> <<>>]
    ELSE IF \E k \in DOMAIN indices : indices[k] \notin DOMAIN XmatchDict(ref)
    THEN [state |-> "KeyError", values |-> <<>>]
    ELSE [state |-> "done",
          values |-> [k \in DOMAIN indices |-> XmatchDict(ref)[indices[k]]]]

\* self._get_target_field(name, default=...): [state, values]
GetTargetFieldValue(ref, indices, default) ==
    IF ~ref.exists
    THEN [state |-> "done", values |-> default]
    ELSE Xmatch(ref.rows, indices)

\* get_targetHDU() of a dataset without target table
NoTable == [exists |-> FALSE, rows |-> <<>>]

XIdle ==
    /\ xref = NoTable
    /\ xdep = <<>>
    /\ xresult = <<>>
    /\ xstate = "idle"

MIdle ==
    /\ hdus = <<>>
    /\ id_name = None
    /\ equality = "never"
    /\ refs = <<>>
    /\ kept = <<>>
    /\ maps = <<>>
    /\ merged = <<>>
    /\ mstate = "idle"

(* ------------------------------- states -------------------------------- *)
Rows == [id : 1..MaxId, name : Names]

RECURSIVE Sum(_)
Sum(ns) == IF ns = <<>> THEN 0 ELSE Head(ns) + Sum(Tail(ns))

\* the tables of lens[i] rows each, cut out of one run of rows
TablesOf(exts, lens, run) ==
    [i \in DOMAIN lens |->
        [extname |-> exts[i],
         rows |-> SubSeq(run, Sum(SubSeq(lens, 1, i - 1)) + 1,
                              Sum(SubSeq(lens, 1, i)))]]

\* identifiers are unique within a table (the data model's invariant)
UniqueIds(rows) == \A a, b \in DOMAIN rows : a # b => rows[a].id # rows[b].id

\* the tables of a merge: self is the reference table OI_TARGET, the others
\* are of any kind, each table has unique identifiers, and the tables hold
\* at most MaxTotalRows rows together; each referrer holds one foreign key
\* per entry of the table it refers to
Init ==
    /\ \E n \in 1..MaxInputs : \E lens \in [1..n -> 0..MaxId] :
          /\ Sum(lens) <= MaxTotalRows
          /\ \E run \in [1..Sum(lens) -> Rows] : \E exts \in [1..n -> ExtNames] :
                /\ exts[1] = "OI_TARGET"
                /\ hdus = TablesOf(exts, lens, run)
    /\ \A i \in DOMAIN hdus : UniqueIds(hdus[i].rows)
    /\ id_name \in {None, IdColumn}
    /\ equality \in Equalities
    /\ id_name = None => equality = "never"
    /\ refs = [i \in DOMAIN hdus |-> IdCol(hdus[i].rows)]
    /\ kept = <<>>
    /\ maps = <<>>
    /\ merged = <<>>
    /\ mstate = "ready"
    /\ XIdle
    /\ VIdle
    /\ CIdle

\* self._merge_helper(*others, id_name=..., equality=...)
MergeHelper ==
    /\ mstate = "ready"
    /\ IF ~SameExtname(hdus)
       THEN /\ mstate' = "TypeError"
            /\ UNCHANGED <<kept, maps, merged, refs>>
       ELSE LET rows == [i \in DOMAIN hdus |-> hdus[i].rows]
                res  == MergeFitsRows(rows, id_name, equality)
                nrows == SumLen(res.kept)
            IN  IF res.failed
                THEN /\ mstate' = "IndexError"
                     /\ UNCHANGED <<kept, maps, merged, refs>>
                ELSE /\ mstate' = "done"
                     /\ kept' = res.kept
                     /\ maps' = res.maps
                     /\ merged' = FillRows(FromColumns(rows[1], nrows),
                                           res.kept, res.maps, 1, 0, id_name)
                     /\ refs' = Cascade(refs, res.maps)
    /\ UNCHANGED <<hdus, id_name, equality>>
    /\ UNCHANGED <<xvars, vvars, cvars>>

Next == MergeHelper

vars == <<mvars, xvars, vvars, cvars>>

Spec == Init /\ [][Next]_vars

(* ------------------------- merge: properties --------------------------- *)
NumInputs == Len(hdus)
InRows(i) == hdus[i].rows
\* number of merged rows that precede the rows of input i
Offset(i) == SumLen(SubSeq(kept, 1, i - 1))
\* the accepted rows, as they were in their inputs
FlatKept == Flat(kept)
MergedIds(n) == {merged[q].id : q \in 1..n}
MergedWithId == mstate = "done" /\ id_name # None
\* positions (in accepted order) of the rows accepted before input i that
\* the equality predicate matches with row j of input i
MatchesOf(i, j) ==
    {p \in 1..Offset(i) : Equality(equality, InRows(i)[j], FlatKept[p])}
\* smallest positive integer outside S
SmallestUnused(S) == Min((1..(Cardinality(S) + 1)) \ S)

\* C1: after a merge with an identifier column every foreign key of the
\* referrer of input i is map_i applied exactly once to its value before
\* the merge (the value itself when map_i has no entry for it).
C1_CascadeAppliesMapOnce ==
    MergedWithId =>
        \A i \in DOMAIN hdus : \A k \in DOMAIN refs[i] :
            refs[i][k] = DictGet(maps[i], InRows(i)[k].id)

\* C2: the identifier column of a table merged with an identifier column
\* holds no value twice.
C2_MergedIdsUnique ==
    MergedWithId =>
        \A a, b \in DOMAIN merged : a # b => merged[a].id # merged[b].id

C2_Witness ==
    /\ MergedWithId
    /\ \E i \in 2..NumInputs : \E k \in DOMAIN kept[i] :
          /\ merged[Offset(i) + k].id # kept[i][k].id
          /\ Len(merged) >= 3

\* C3: after a merge with an identifier column every foreign key of every
\* referrer is an identifier of the merged table.
C3_ReferentialClosure ==
    MergedWithId =>
        \A i \in DOMAIN hdus : \A k \in DOMAIN refs[i] :
            refs[i][k] \in MergedIds(Len(merged))

C3_Witness ==
    /\ MergedWithId
    /\ \E i \in 2..NumInputs : \E k \in DOMAIN refs[i] :
          refs[i][k] # InRows(i)[k].id

\* the id map of input i (no map when _merge_fits_rows returned fewer maps)
MapOf(i) == IF i <= Len(maps) THEN maps[i] ELSE <<>>
ExpectedRows(i) ==
    [k \in DOMAIN kept[i] |->
        [kept[i][k] EXCEPT !.id = DictGet(MapOf(i), kept[i][k].id)]]

\* C4: the merged rows are the kept rows of every input, in input order,
\* each copied from its source row with the identifier rewritten through
\* the input's id map; also for a merge without identifier column.
C4_RowAssembly ==
    mstate = "done" =>
        merged = Flat([i \in DOMAIN kept |-> ExpectedRows(i)])

TotalInputRows == SumLen([i \in DOMAIN hdus |-> InRows(i)])
JudgedDuplicate ==
    {ij \in UNION {{<<i, j>> : j \in DOMAIN InRows(i)} : i \in 2..NumInputs} :
        MatchesOf(ij[1], ij[2]) # {}}

C7_NewIdentifierPolicy ==
    /\ mstate # "IndexError"
    /\ MergedWithId =>
        \A i \in 2..NumInputs : \A k \in DOMAIN kept[i] :
            LET old == kept[i][k].id
                pos == Offset(i) + k
                used == MergedIds(pos - 1)
                new == merged[pos].id
            IN  IF old \notin used
                THEN new = old
                ELSE /\ new # old
                     /\ new = SmallestUnused(used \cup Range(IdCol(InRows(i))))
                     /\ <<old, new>> \in Range(maps[i])

C7_Witness ==
    /\ MergedWithId
    /\ \E i \in 2..NumInputs : \E k \in DOMAIN kept[i] :
          /\ kept[i][k].id \in MergedIds(Offset(i) + k - 1)
          /\ merged[Offset(i) + k].id > MaxId

\* the foreign keys of the referrers of input i, as they were before the merge
RefsBefore(i) == IdCol(InRows(i))

\* some input is of another kind than the first
KindMismatch == \E i \in DOMAIN hdus : hdus[i].extname # hdus[1].extname

\* C12: a merge whose inputs are not all of the kind of the first ends with
\* an error and nothing else: no row is accepted or renumbered, no merged
\* table is built and no foreign key of a referrer is rewritten
C12_KindMismatchIsFatal ==
    (mstate \notin {"ready", "idle"} /\ KindMismatch) =>
        /\ mstate = "TypeError"
        /\ kept = <<>>
        /\ maps = <<>>
        /\ merged = <<>>
        /\ \A i \in DOMAIN refs : refs[i] = RefsBefore(i)

C12_Witness ==
    /\ mstate = "TypeError"
    /\ id_name # None
    /\ \E i \in 2..NumInputs :
          /\ hdus[i].extname = hdus[1].extname
          /\ \E a \in DOMAIN InRows(1), b \in DOMAIN InRows(i) :
                InRows(1)[a].id = InRows(i)[b].id

\* C18: in a merge with an identifier column a row of a second or later
\* input is compared with every row accepted before it, those of its own
\* input too: no accepted row of a later input equals, by the predicate of
\* the merge, a row accepted before it
C18_ComparedWithEveryAccepted ==
    MergedWithId =>
        \A q \in DOMAIN FlatKept : \A p \in 1..(q - 1) :
            q > Len(kept[1]) => ~Equality(equality, FlatKept[q], FlatKept[p])

\* C19: a merge rewrites nothing but the foreign keys of the referrers of an
\* input whose map is not empty: the referrers of the first input and of an
\* input whose map is empty hold what they held
C19_MergeFrame ==
    mstate = "done" =>
        \A i \in DOMAIN refs :
            (i = 1 \/ i > Len(maps) \/ maps[i] = <<>>) => refs[i] = RefsBefore(i)

C19_Witness ==
    /\ MergedWithId
    /\ \E i, j \in 2..NumInputs :
          /\ i # j
          /\ maps[i] # <<>>
          /\ refs[i] # RefsBefore(i)
          /\ maps[j] = <<>>
          /\ refs[j] # <<>>
          /\ \E k \in DOMAIN maps[i] : maps[i][k][1] \in Range(refs[j])

(* --------------------------- cross-match runs -------------------------- *)
\* a dependent table and the target table of its dataset, if it has one; the
\* foreign keys need not be identifiers of the target table
InitXmatch ==
    /\ MIdle
    /\ VIdle
    /\ CIdle
    /\ xref \in {NoTable} \cup
                [exists : {TRUE},
                 rows : UNION {[1..k -> [id : 1..MaxId, name : Names]] :
                                  k \in 0..MaxXRows}]
    /\ xdep \in UNION {[1..k -> 1..MaxId] : k \in 0..MaxXRows}
    /\ xresult = <<>>
    /\ xstate = "ready"

\* h._xmatch('TARGET', refhdu, 'TARGET_ID') on an existing reference table
XmatchCall ==
    /\ xstate = "ready"
    /\ xref.exists
    /\ LET r == Xmatch(xref.rows, xdep)
       IN  /\ xstate' = r.state
           /\ xresult' = r.values
    /\ UNCHANGED <<xref, xdep, mvars, vvars, cvars>>

\* h.get_target(): h._get_target_field('TARGET', default='N/A')
GetTargetField ==
    /\ xstate = "ready"
    /\ LET r == GetTargetFieldValue(xref, xdep, NotAvailable)
       IN  /\ xstate' = r.state
           /\ xresult' = r.values
    /\ UNCHANGED <<xref, xdep, mvars, vvars, cvars>>

NextXmatch == XmatchCall \/ GetTargetField

SpecXmatch == InitXmatch /\ [][NextXmatch]_vars

\* the identifiers of the reference table
XRefIds == {xref.rows[i].id : i \in DOMAIN xref.rows}
MissingKeys == {k \in DOMAIN xdep : xdep[k] \notin XRefIds}

\* C8: when a foreign key of the dependent table is no identifier of the
\* (non-empty) reference table, the cross-match does not abort: it returns one value per
\* dependent row, the referenced value where the key exists and a
\* no-reference marker (a value no reference row holds) where it does not.
C8_MissingKeyYieldsMarker ==
    (xstate \notin {"ready", "idle"} /\ xref.exists /\ xref.rows # <<>>
        /\ MissingKeys # {}) =>
        /\ xstate = "done"
        /\ DOMAIN xresult = DOMAIN xdep
        /\ \A k \in DOMAIN xdep :
              IF k \in MissingKeys
              THEN xresult[k] \notin Names
              ELSE xresult[k] = XmatchDict(xref.rows)[xdep[k]]

(* --------------------------- verification runs ------------------------- *)
\* the columns a table of the kind may hold, besides those of its schema one
\* that is to be named FLUXDATA and two columns of the user
ColumnNames(kind) ==
    IF kind = "flux" THEN {TARGET_ID, FLUXDATA, FLUX, EXTRA, MY_COL}
    ELSE {TARGET_ID, RAEP0, CATEGORY, EXTRA, MY_COL}

Column(t, c, u, sh, v) ==
    [dtype |-> t, castable |-> c, unit |-> u, shape |-> sh, values |-> v]

\* what a column of n rows may hold: the declared type or another one, the
\* declared unit or another one, valid and invalid values; a column of
\* another kind of data (text where numbers are declared, and the reverse)
\* may or may not be castable
ColumnChoices(name, n) ==
    CASE name = TARGET_ID ->
            {Column(t, TRUE, NoUnit, "scalar", v) :
                t \in {I2, I4}, v \in [1..n -> 0..2]}
      [] name = RAEP0 ->
            {Column(tc[1], tc[2], u, "scalar", [k \in 1..n |-> "r"]) :
                tc \in {<<F8, TRUE>>, <<F4, TRUE>>, <<S8, FALSE>>},
                u \in {"deg", "rad"}}
      [] name = CATEGORY ->
            {Column(S3, TRUE, NoUnit, "scalar", v) :
                v \in [1..n -> {"SCI", "BAD"}]}
            \cup {Column(I2, c, NoUnit, "scalar", [k \in 1..n |-> "7"]) :
                     c \in BOOLEAN}
      [] name \in {FLUXDATA, FLUX} ->
            {Column(t, TRUE, NoUnit, sh, [k \in 1..n |-> "r"]) :
                t \in {F8, F4}, sh \in {"nwave", "other"}}
      [] OTHER ->
            {Column(F8, TRUE, NoUnit, "scalar", [k \in 1..n |-> "r"])}

RECURSIVE TablesOver(_, _)
\* the tables of n rows whose columns are those of names
TablesOver(names, n) ==
    IF names = {} THEN {<<>>}
    ELSE LET name == CHOOSE x \in names : TRUE
             rest == TablesOver(names \ {name}, n)
         IN  {[m \in DOMAIN t \cup {name} |-> IF m = name THEN c ELSE t[m]] :
                 t \in rest, c \in ColumnChoices(name, n)}

\* the target table of the dataset, as a table of the kind sees it
Targets(kind) ==
    CASE kind = "base" -> {[is |-> "none", ids |-> {}]}
      [] kind = "target" -> {[is |-> "self", ids |-> {}]}
      [] OTHER -> {[is |-> "none", ids |-> {}]} \cup
                  {[is |-> "other", ids |-> ids] : ids \in {{1}, {1, 2}}}

InitVerify ==
    /\ MIdle
    /\ XIdle
    /\ CIdle
    /\ vkind \in {"base", "ref", "target", "flux"}
    /\ \E n \in 1..MaxVRows :
          \E names \in {S \in SUBSET ColumnNames(vkind) :
                           Cardinality(S) <= MaxColumns} :
              vtable \in TablesOver(names, n)
    /\ vtarget \in Targets(vkind)
    /\ vopts = <<>>
    /\ vprev = vtable
    /\ vreturn = [status |-> "none", errors |-> <<>>]
    /\ vraised = <<>>

\* one pass h._verify(option) whose outcome is r
Pass(option, r) ==
    /\ Len(vopts) < MaxPasses
    /\ vopts' = Append(vopts, option)
    /\ vprev' = vtable
    /\ vtable' = r.table
    /\ vreturn' = [status |-> r.status, errors |-> r.errors]
    /\ vraised' = r.raised
    /\ UNCHANGED <<vkind, vtarget, mvars, xvars, cvars>>

\* _OITableHDU._verify on a table of no more specific class
OITableHDU_verify ==
    /\ vkind = "base"
    /\ \E option \in {"warn", "fix"} :
          Pass(option, Outcome(VerifyTable(vtable, vkind, option), "list"))

\* _MustHaveTargetHDU._verify on a table that refers to the target table
MustHaveTargetHDU_verify ==
    /\ vkind = "ref"
    /\ \E option \in {"warn", "fix"} :
          Pass(option, VerifyMustHaveTarget(vtable, vkind, vtarget, option))

\* _TargetHDU._verify on the target table
TargetHDU_verify ==
    /\ vkind = "target"
    /\ \E option \in {"warn", "fix"} :
          Pass(option, VerifyTargetHDU(vtable, vkind, vtarget, option))

\* _FluxHDU._verify on a flux table
FluxHDU_verify ==
    /\ vkind = "flux"
    /\ \E option \in {"warn", "fix"} :
          Pass(option, VerifyFluxHDU(vtable, vkind, vtarget, option))

NextVerify ==
    \/ OITableHDU_verify
    \/ MustHaveTargetHDU_verify
    \/ TargetHDU_verify
    \/ FluxHDU_verify

SpecVerify == InitVerify /\ [][NextVerify]_vars

(* ------------------------ properties of verification ------------------- *)
Passes == Len(vopts)

\* the pass that last ran came to its end
Completed == Passes >= 1 /\ vreturn.status # "AttributeError"

\* the last two passes were both made in repair mode
RepairedTwice ==
    /\ Passes >= 2
    /\ vopts[Passes - 1] = "fix"
    /\ vopts[Passes] = "fix"

FixableRaised == {i \in DOMAIN vraised : vraised[i].fixable}

\* C9: repair is idempotent: a repair pass made on the result of a repair
\* pass leaves the table identical and raises no fixable finding, also
\* for a type mismatch whose cast did not succeed
C9_RepairIdempotent ==
    (RepairedTwice /\ Completed) => (vtable = vprev /\ FixableRaised = {})

\* C10: verification never raises for the content of the data and always
\* returns the findings: whatever the kind of the table and its content,
\* a pass returns a list that holds every finding raised during the pass
C10_ReturnsEveryFinding ==
    Passes >= 1 =>
        /\ vreturn.status = "list"
        /\ \A i \in DOMAIN vraised :
              \E j \in DOMAIN vreturn.errors : vreturn.errors[j] = vraised[i]

(* ---------------------------- conversion runs -------------------------- *)
\* the revisions a caller may ask for: those of the standard and one more
Revisions == 1..3

ConvertColumnChoices(name, n) ==
    CASE name = TARGET_ID ->
            {Column(I2, TRUE, NoUnit, "scalar", v) : v \in [1..n -> 1..MaxId]}
      [] name = TARGET ->
            {Column(t, TRUE, NoUnit, "scalar", [k \in 1..n |-> "X"]) :
                t \in {U16, U32}}
      [] name = CATEGORY ->
            {Column(U3, TRUE, NoUnit, "scalar", v) :
                v \in [1..n -> {"SCI", "CAL"}]}
      [] name = FLUXDATA ->
            {Column(t, TRUE, NoUnit, "nwave", [k \in 1..n |-> "r"]) :
                t \in {F8, F4}}
      [] OTHER ->
            {Column(F8, TRUE, NoUnit, "scalar", [k \in 1..n |-> "r"])}

RECURSIVE ConvertTablesOver(_, _)
\* the tables of n rows whose columns are those of names
ConvertTablesOver(names, n) ==
    IF names = {} THEN {<<>>}
    ELSE LET name == CHOOSE x \in names : TRUE
         IN  {[m \in DOMAIN t \cup {name} |-> IF m = name THEN c ELSE t[m]] :
                 t \in ConvertTablesOver(names \ {name}, n),
                 c \in ConvertColumnChoices(name, n)}

\* the columns the schema of the class requires
RequiredColnames(cls) ==
    {ClassColumns(cls)[i].name :
        i \in {j \in DOMAIN ClassColumns(cls) : ClassColumns(cls)[j].required}}

\* a table of a class holds the columns its schema requires, maybe the others
\* of its schema and maybe one of the user
InitConvert ==
    /\ MIdle
    /\ XIdle
    /\ VIdle
    /\ ccls \in Classes
    /\ \E n \in 1..MaxVRows :
          \E names \in {S \in SUBSET (ClassColnames(ccls) \cup {EXTRA}) :
                           RequiredColnames(ccls) \subseteq S} :
              ctable \in ConvertTablesOver(names, n)
    /\ cprev = [cls |-> ccls, table |-> ctable]
    /\ corig = [cls |-> ccls, table |-> ctable]
    /\ creq = <<>>

\* new = h.to_version(n), the table converted next being new
ToVersion ==
    /\ Len(creq) < MaxConversions
    /\ \E n \in Revisions :
          /\ creq' = Append(creq, n)
          /\ cprev' = [cls |-> ccls, table |-> ctable]
          /\ ccls' = ToVersionOf([cls |-> ccls, table |-> ctable], n).cls
          /\ ctable' = ToVersionOf([cls |-> ccls, table |-> ctable], n).table
    /\ UNCHANGED <<corig, mvars, xvars, vvars>>

NextConvert == ToVersion

SpecConvert == InitConvert /\ [][NextConvert]_vars

(* ------------------------- properties of conversion -------------------- *)
Conversions == Len(creq)

\* the revision last asked for
Requested == creq[Conversions]

\* a class of the kind of the table implements the revision last asked for
KnownRevision ==
    \E i \in DOMAIN Subclasses(cprev.cls) :
        OiVer(Subclasses(cprev.cls)[i]) = Requested

\* the default the schema of the class gives the column
DefaultOf(cls, name) ==
    LET cols == ClassColumns(cls)
    IN  cols[CHOOSE i \in DOMAIN cols : cols[i].name = name].default

\* C11: to_version(n) keeps the rows and the identifiers; a column the
\* schema of the source declares and the schema of the target lacks is
\* dropped, a column of the schema of the target that the source lacks is
\* there with the default of the schema, and a column of both keeps its values
C11_ConversionColumnContract ==
    (Conversions >= 1 /\ KnownRevision) =>
        /\ \A c \in DOMAIN cprev.table \cap ClassColnames(cprev.cls) :
              c \notin ClassColnames(ccls) => c \notin DOMAIN ctable
        /\ \A c \in ClassColnames(ccls) \ DOMAIN cprev.table :
              /\ c \in DOMAIN ctable
              /\ \A k \in DOMAIN ctable[c].values :
                    ctable[c].values[k] = DefaultOf(ccls, c)
        /\ \A c \in ClassColnames(ccls) \cap DOMAIN cprev.table :
              /\ c \in DOMAIN ctable
              /\ ctable[c].values = cprev.table[c].values

\* C17: to_version(n) never returns a table of another revision than n (it
\* fails when no class of the kind of the table implements n)
C17_ReturnsRequestedRevision ==
    Conversions >= 1 => OiVer(ccls) = Requested

\* the option of the pass that last ran
LastOption == vopts[Passes]

\* the schema the table is verified against
Schema == GetOiColumns(vkind, FALSE)

\* the columns of the schema the table held before the last pass, and holds
Declared ==
    {i \in DOMAIN Schema :
        Schema[i].name \in DOMAIN vprev /\ Schema[i].name \in DOMAIN vtable}

\* positions of the values of the column the validator of d rejected
InvalidBefore(d) ==
    {k \in DOMAIN vprev[d.name].values : ~Test(d.test, vprev[d.name].values[k])}

Returned(f) == \E j \in DOMAIN vreturn.errors : vreturn.errors[j] = f

\* C13: for every column of the schema that declares a validator and holds
\* an invalid value the list returned holds a finding for the column, fixable
\* exactly when a default exists that can be cast to the declared type; in
\* repair mode a fixable finding puts the default at the invalid positions
\* and leaves the others
C13_ValidatorFindings ==
    (Completed /\ LastOption = "fix") =>
        \A i \in Declared :
            LET d == Schema[i]
                fixable == DefaultCastable(d.default, d.type)
            IN  (d.test # NoTest /\ InvalidBefore(d) # {}) =>
                    /\ Returned(Finding("values", d.name, fixable))
                    /\ \A k \in DOMAIN vprev[d.name].values :
                          vtable[d.name].values[k] =
                              IF fixable /\ k \in InvalidBefore(d)
                              THEN d.default
                              ELSE vprev[d.name].values[k]

\* C14: in repair mode a column whose type is not the declared one is cast
\* to it and its finding is fixable; when the cast fails the column is left
\* as it was and its finding is not fixable
C14_TypeMismatchRepair ==
    (Completed /\ LastOption = "fix") =>
        \A i \in Declared :
            LET d == Schema[i]
                cast == vtable[d.name].dtype = d.type
            IN  DtypeDescr(d.type) # DtypeDescr(vprev[d.name].dtype) =>
                    /\ cast \/ vtable[d.name].dtype = vprev[d.name].dtype
                    /\ Returned(Finding("type", d.name, cast))

\* C15: a pass that applies no fix leaves the table as it was: types, units,
\* names and values of its columns
C15_ReportOnlyLeavesTable ==
    (Completed /\ LastOption = "warn") => vtable = vprev

\* f"NS_{name}" was applied: the name starts with the prefix
HasPrefix(name) == Len(name) > 1 /\ Head(name) = "NS"

\* C16: a column whose name the schema does not declare and that does not
\* start with the prefix NS_ is flagged as fixable, and after a repair pass
\* every column name is one of the schema or starts with the prefix, an
\* underscore elsewhere in the name being no exemption
C16_NamingConvention ==
    (Completed /\ LastOption = "fix") =>
        /\ (\E n \in DOMAIN vprev \ {FLUX} :
               n \notin Range(GetOiColnames(vkind, FALSE)) /\ ~HasPrefix(n))
              => Returned(Finding("naming", <<>>, TRUE))
        /\ \A n \in DOMAIN vtable :
              n \in Range(GetOiColnames(vkind, FALSE)) \/ HasPrefix(n)

====
